---- MODULE Spec2Model ----
(***************************************************************************)
(* The Gate of service/gate/gate.go: session registry, admission control,  *)
(* kick, write path, pooled bufio objects and the TCP framing read loop.   *)
(*                                                                         *)
(* Every goroutine of the program is a task of the model; an action is one *)
(* step of one task between two accesses to shared state.                  *)
(***************************************************************************)
EXTENDS Integers, Sequences, FiniteSets, TLC

(* ------------------------------ bounds -------------------------------- *)

\* Session ids handed out in one run of the registry specification.
MaxSession == 2
\* Connections admitted in one run of the read-path and framing specifications.
MaxConns == 1
\* Largest configured maxclient (0 = no limit).
MaxClients == 2
\* Gate.Write calls made in one run.
MaxCalls == 2
\* Notifications recorded in one run.
MaxEvents == 2
\* Frames a client sends on one connection.
MaxSends == 2
\* Longest payload a client or the actor uses where lengths are enumerated.
MaxLen == 1

\* The tasks of each kind the program may run at once.
Handlers == {1, 2, 3}
Kickers == {1, 2}
Writers == {1, 2}

(* --------------------------- program constants ------------------------ *)

\* const ( OnOpen uint8 = iota; OnMessage; OnClose; OnPong )
OnOpen == 0
OnMessage == 1
OnClose == 2
OnPong == 3
\* bufio.NewWriter / bufio.NewReader: the default buffer size of package bufio.
BufSize == 4096
\* binary.BigEndian.PutUint16 / uint16(len(data)): one byte is 8 bits wide.
ByteMod == 256
\* uint16: the width of the length header.
U16Mod == 65536

(* ------------------------------ state --------------------------------- *)

VARIABLES
  path,             \* Conf.path: "" selects TCP, anything else WebSocket
  maxclient,        \* Gate.maxclient
  session,          \* Gate.session, the atomic id counter
  clinetnum,        \* Gate.clinetnum (uint32, kept as its signed residue)
  sessions,         \* Gate.sessions: session id -> backend
  rwmutex,          \* Gate.rwmutex: [w |-> holder of Lock, r |-> holders of RLock]
  fatal,            \* "none", or the runtime fault that ended the process
  backends,         \* the Backend objects built so far, in order of construction
  closes,           \* per backend: number of Close() invocations
  rd,               \* per pooled *bufio.Reader: the stream it is bound to (0 = nil)
  wr,               \* per pooled *bufio.Writer: the stream it is bound to (0 = nil)
  wbuf,             \* per pooled *bufio.Writer: the chunks it has buffered
  werr,             \* per pooled *bufio.Writer: its sticky error, "nil" or "err"
  bufioReaderPool,  \* bufioReaderPool
  bufioWriterPool,  \* bufioWriterPool
  acc,              \* the TCP accept goroutine
  hnd,              \* the HTTP upgrade handlers
  srv,              \* per TCP backend: its serve goroutine
  kck,              \* per caller of kick: the frame of its kick call
  wrt,              \* per caller of Gate.Write: the frame of its call
  inb,              \* per connection: bytes received and not yet read
  rerr,             \* per connection: the condition its next Read meets
  out,              \* per connection: chunks written to the socket
  sent,             \* per connection: the payloads its client has sent, in order
  events,           \* the Notify calls made, in order
  calls,            \* the Gate.Write calls made, in order of invocation, each with
                    \* the backend whose Write it went on to call (0: none), what
                    \* that Write returned and what Gate.Write returned ("none"
                    \* until then, "nil" or "err")
  hist              \* per session id: its lifecycle transitions, in order

gateVars == <<path, maxclient, session, clinetnum, sessions, rwmutex, fatal>>
objVars  == <<backends, closes, rd, wr, wbuf, werr, bufioReaderPool, bufioWriterPool>>
taskVars == <<acc, hnd, srv, kck, wrt>>
ioVars   == <<inb, rerr, out, sent, events, calls>>
vars     == <<gateVars, objVars, taskVars, ioVars, hist>>

(* ------------------------------ helpers ------------------------------- *)

\* Session ids, backends and connections of the largest run, and so the ids a KICK
\* command may name: in the registry runs, the last of them are never allocated.
Ids == 1..(MaxSession + 2)

\* The callers of kick: KICK commands and the serve goroutines (self-kick).
KickTasks == ({"cmd"} \X Kickers) \cup ({"serve"} \X Ids)

\* uint32 arithmetic on signed residues: the value x of a uint32 is kept as x when
\* x < 2^31 and as x - 2^32 otherwise, so 0 - 1 is -1 (0xFFFFFFFF).
Inc32(c) == c + 1
Dec32(c) == c - 1
\* a > m, the comparison one off from the code's.
Ugt32(a, m) == IF a < 0 THEN TRUE ELSE a > m

\* a >= m for uint32 a (a residue) and a configured m < 2^31.
Uge32(a, m) == IF a < 0 THEN TRUE ELSE a >= m

Alive == fatal = "none"

IsTcp == path = ""

\* A delete that removes nothing.
MapKeep(m, k) == m

\* The id -> backend map with one key removed / added.
MapDelete(m, k) == [x \in DOMAIN m \ {k} |-> m[x]]
MapPut(m, k, v) == [x \in DOMAIN m \cup {k} |-> IF x = k THEN v ELSE m[x]]

Record(id, what) == [hist EXCEPT ![id] = Append(@, what)]

\* A lock that stays with its holder.
UnlockLater(m) == m

\* g.rwmutex.Unlock()
Unlock(m) == [m EXCEPT !.w = <<>>]

\* Another goroutine is at a map access of its own (under the registry lock).
MapBusy ==
  \/ \E t \in KickTasks : kck[t].pc = "lock"
  \/ \E w \in Writers : wrt[w].pc = "lookup"

\* A []byte is held as its runs: <<[n |-> 3, v |-> 7], [n |-> 1, v |-> 0]>> is the
\* bytes 7 7 7 0. No run is empty and neighbouring runs differ in their byte, so
\* equal byte strings are equal values.
Rep(n, v) == IF n = 0 THEN <<>> ELSE <<[n |-> n, v |-> v]>>

\* len(s)
RECURSIVE BLen(_)
BLen(s) == IF s = <<>> THEN 0 ELSE Head(s).n + BLen(Tail(s))

\* append(s, t...)
Cat(s, t) ==
  IF s = <<>> THEN t
  ELSE IF t = <<>> THEN s
  ELSE IF s[Len(s)].v = t[1].v
    THEN (SubSeq(s, 1, Len(s) - 1) \o <<[n |-> s[Len(s)].n + t[1].n, v |-> t[1].v]>>)
         \o Tail(t)
    ELSE s \o t

\* s[:k]
RECURSIVE Take(_, _)
Take(s, k) ==
  IF k = 0 \/ s = <<>> THEN <<>>
  ELSE IF Head(s).n >= k THEN <<[n |-> k, v |-> Head(s).v]>>
  ELSE <<Head(s)>> \o Take(Tail(s), k - Head(s).n)

\* s[k:]
RECURSIVE Drop(_, _)
Drop(s, k) ==
  IF k = 0 \/ s = <<>> THEN s
  ELSE IF Head(s).n > k THEN <<[n |-> Head(s).n - k, v |-> Head(s).v]>> \o Tail(s)
  ELSE Drop(Tail(s), k - Head(s).n)

\* s[i], counted from 1
At(s, i) == Drop(s, i - 1)[1].v

\* The []byte of a sequence of bytes written out.
RECURSIVE Bytes(_)
Bytes(q) == IF q = <<>> THEN <<>> ELSE Cat(Rep(1, Head(q)), Bytes(Tail(q)))

IdleKick == [pc |-> "idle", session |-> 0, b |-> 0, ok |-> FALSE, cnt |-> 0]
IdleWrite == [pc |-> "idle", session |-> 0, data |-> <<>>, b |-> 0, call |-> 0]
IdleHandler == [pc |-> "idle", session |-> 0, b |-> 0, cnt |-> 0]
NoServe == [pc |-> "spawned", head |-> Rep(2, 0), n |-> 0, data |-> <<>>, on |-> 0]

(* ------------------------------- New ---------------------------------- *)

\* New() followed by open(conf): the configuration is an input of the run.
Init ==
  /\ path \in {"", "/ws"}
  /\ maxclient \in 0..MaxClients
  /\ session = 0
  /\ clinetnum = 0
  /\ sessions = <<>>
  /\ rwmutex = [w |-> <<>>, r |-> {}]
  /\ fatal = "none"
  /\ backends = <<>>
  /\ closes = <<>>
  /\ rd = <<>>
  /\ wr = <<>>
  /\ wbuf = <<>>
  /\ werr = <<>>
  /\ bufioReaderPool = {}
  /\ bufioWriterPool = {}
  /\ acc = [pc |-> "accept", cnt |-> 0, conns |-> 0, refused |-> 0]
  /\ hnd = [h \in Handlers |-> IdleHandler]
  /\ srv = <<>>
  /\ kck = [t \in KickTasks |-> IdleKick]
  /\ wrt = [w \in Writers |-> IdleWrite]
  /\ inb = <<>>
  /\ rerr = <<>>
  /\ out = <<>>
  /\ sent = <<>>
  /\ events = <<>>
  /\ calls = <<>>
  /\ hist = [i \in Ids |-> <<>>]

(* ------------------------- pooled bufio objects ----------------------- *)

\* bufioReaderPool.Get(): any pooled reader, or nil and then a new object.
ReaderChoices == bufioReaderPool \cup {Len(rd) + 1}
\* bufioWriterPool.Get(): any pooled writer, or nil and then a new object.
WriterChoices == bufioWriterPool \cup {Len(wr) + 1}

\* newBufioReader(conn) returning object r: br.Reset(conn) or bufio.NewReader(conn).
newBufioReader(r, conn) ==
  /\ rd' = IF r > Len(rd) THEN Append(rd, conn) ELSE [rd EXCEPT ![r] = conn]
  /\ bufioReaderPool' = bufioReaderPool \ {r}

\* newBufioWriter(conn) returning object w: bw.Reset(conn) or bufio.NewWriter(conn).
newBufioWriter(w, conn) ==
  /\ wr' = IF w > Len(wr) THEN Append(wr, conn) ELSE [wr EXCEPT ![w] = conn]
  /\ wbuf' = IF w > Len(wbuf) THEN Append(wbuf, <<>>) ELSE [wbuf EXCEPT ![w] = <<>>]
  /\ werr' = IF w > Len(werr) THEN Append(werr, "nil") ELSE [werr EXCEPT ![w] = "nil"]
  /\ bufioWriterPool' = bufioWriterPool \ {w}

\* putBufioReader(r): r.Reset(nil); bufioReaderPool.Put(r).
putBufioReader(r) ==
  /\ rd' = [rd EXCEPT ![r] = 0]
  /\ bufioReaderPool' = bufioReaderPool \cup {r}

\* putBufioWriter(w): w.Reset(nil) (buffered data is dropped); bufioWriterPool.Put(w).
putBufioWriter(w) ==
  /\ wr' = [wr EXCEPT ![w] = 0]
  /\ wbuf' = [wbuf EXCEPT ![w] = <<>>]
  /\ werr' = [werr EXCEPT ![w] = "nil"]
  /\ bufioWriterPool' = bufioWriterPool \cup {w}

\* A new Backend object and the per-connection state that comes with it.
NewBackend(s, kind, r, w) ==
  /\ backends' = Append(backends, [session |-> s, kind |-> kind, Reader |-> r, Writer |-> w])
  /\ closes' = Append(closes, 0)
  /\ srv' = Append(srv, NoServe)
  /\ inb' = Append(inb, <<>>)
  /\ rerr' = Append(rerr, "none")
  /\ out' = Append(out, <<>>)
  /\ sent' = Append(sent, <<>>)

\* TcpBackend.Close(): both pooled objects go back, then the socket is closed.
TcpBackendClose(b) ==
  /\ putBufioReader(backends[b].Reader)
  /\ putBufioWriter(backends[b].Writer)
  /\ rerr' = [rerr EXCEPT ![b] = "closed"]
  /\ closes' = [closes EXCEPT ![b] = @ + 1]

\* WebsocketBackend.Close(): w.Websocket.Close(0, "").
WebsocketBackendClose(b) ==
  /\ closes' = [closes EXCEPT ![b] = @ + 1]
  /\ UNCHANGED <<rd, wr, wbuf, werr, bufioReaderPool, bufioWriterPool, rerr>>

\* b.Close() through the Backend interface.
BackendClose(b) ==
  IF backends[b].kind = "tcp" THEN TcpBackendClose(b) ELSE WebsocketBackendClose(b)

(* ------------------------------- kick --------------------------------- *)

\* The KICK command of Start's dispatch: gate.kick(args[1].(uint32)).
KickCmd(k, id) ==
  /\ Alive
  /\ kck[<<"cmd", k>>].pc = "idle"
  /\ \A j \in 1..(k - 1) : kck[<<"cmd", j>>].pc # "idle"
  /\ kck' = [kck EXCEPT ![<<"cmd", k>>] = [IdleKick EXCEPT !.pc = "lock", !.session = id]]
  /\ UNCHANGED <<gateVars, objVars, acc, hnd, srv, wrt, ioVars, hist>>

\* kick returns to its caller: a KICK command is done, a serve goroutine returns.
KickReturn(t) ==
  /\ kck' = [kck EXCEPT ![t] = IdleKick]
  /\ srv' = IF t[1] = "serve" THEN [srv EXCEPT ![t[2]].pc = "done"] ELSE srv

\* The body of the if taken whatever the lookup found.
KickBranchAlways(ok) == "dec"

\* if b, ok = g.sessions[session]; ok { ... }: where kick goes after the lookup.
KickBranch(ok) == IF ok THEN "dec" ELSE "return"

\* g.rwmutex.Lock(); b, ok = g.sessions[session]; in the branch of ok:
\* delete(g.sessions, session) and the load of g.clinetnum--; otherwise
\* g.rwmutex.Unlock(), if ok { ... } is skipped and kick returns.
KickLookup(t) ==
  /\ Alive
  /\ kck[t].pc = "lock"
  /\ rwmutex.w = <<>> /\ rwmutex.r = {}
  /\ LET id == kck[t].session
         ok == id \in DOMAIN sessions
     IN IF KickBranch(ok) = "dec"
          THEN /\ sessions' = MapDelete(sessions, id)
               /\ hist' = IF ok THEN Record(id, "Kicked") ELSE hist
               /\ rwmutex' = [rwmutex EXCEPT !.w = t]
               /\ kck' = [kck EXCEPT ![t].pc = "dec", ![t].ok = ok,
                                     ![t].b = IF ok THEN sessions[id] ELSE 0,
                                     ![t].cnt = clinetnum]
               /\ UNCHANGED srv
          ELSE /\ KickReturn(t)
               /\ UNCHANGED <<sessions, hist, rwmutex>>
  /\ UNCHANGED <<path, maxclient, session, clinetnum, fatal, objVars,
                 acc, hnd, wrt, ioVars>>

\* the store of g.clinetnum--; g.rwmutex.Unlock()
KickDec(t) ==
  /\ Alive
  /\ kck[t].pc = "dec"
  /\ clinetnum' = Dec32(kck[t].cnt)
  /\ rwmutex' = Unlock(rwmutex)
  /\ kck' = [kck EXCEPT ![t].pc = "close", ![t].cnt = 0]
  /\ UNCHANGED <<path, maxclient, session, sessions, fatal, objVars,
                 acc, hnd, srv, wrt, ioVars, hist>>

\* if ok { b.Close() }, and kick returns
KickClose(t) ==
  /\ Alive
  /\ kck[t].pc = "close"
  /\ IF kck[t].ok
       THEN BackendClose(kck[t].b)
       ELSE UNCHANGED <<closes, rd, wr, wbuf, werr, bufioReaderPool, bufioWriterPool, rerr>>
  /\ KickReturn(t)
  /\ UNCHANGED <<gateVars, backends, acc, hnd, wrt, inb, out, sent, events, calls, hist>>

(* ---------------------- open: the TCP accept loop --------------------- *)

\* g.nextSession(): atomic.AddUint32(&g.session, 1)
\* A counter that hands out its present value again once it has started.
nextSessionAgain == IF session = 0 THEN 1 ELSE session

nextSession == session + 1

\* conn, err := listen.Accept() (err != nil: continue) and the admission check
\* if maxclient != 0 && g.clinetnum >= maxclient { conn.Close(); break }
AcceptCheck(cap) ==
  /\ Alive /\ IsTcp
  /\ acc.pc = "accept"
  /\ IF maxclient # 0 /\ Uge32(clinetnum, maxclient)
       THEN acc' = [acc EXCEPT !.pc = "stopped", !.conns = @ + 1, !.refused = @ + 1]
       ELSE /\ session < cap
            /\ acc' = [acc EXCEPT !.pc = "inc", !.conns = @ + 1]
  /\ UNCHANGED <<gateVars, objVars, hnd, srv, kck, wrt, ioVars, hist>>

\* the load of g.clinetnum++
AcceptIncRead ==
  /\ Alive
  /\ acc.pc = "inc"
  /\ acc' = [acc EXCEPT !.pc = "incw", !.cnt = clinetnum]
  /\ UNCHANGED <<gateVars, objVars, hnd, srv, kck, wrt, ioVars, hist>>

\* the store of g.clinetnum++
AcceptIncWrite ==
  /\ Alive
  /\ acc.pc = "incw"
  /\ clinetnum' = Inc32(acc.cnt)
  /\ acc' = [acc EXCEPT !.pc = "register", !.cnt = 0]
  /\ UNCHANGED <<path, maxclient, session, sessions, rwmutex, fatal, objVars,
                 hnd, srv, kck, wrt, ioVars, hist>>

\* session := g.nextSession(); backend := newTcpBackend(session, conn);
\* g.sessions[session] = backend; go backend.serve(g)
\* The map store takes no lock: when it overlaps a map access made under the lock
\* the runtime may stop the process ("concurrent map writes").
AcceptRegister(r, w) ==
  /\ Alive
  /\ acc.pc = "register"
  /\ r \in ReaderChoices /\ w \in WriterChoices
  /\ \/ /\ newBufioReader(r, Len(backends) + 1)
        /\ newBufioWriter(w, Len(backends) + 1)
        /\ NewBackend(nextSession, "tcp", r, w)
        /\ session' = nextSession
        /\ sessions' = MapPut(sessions, nextSession, Len(backends) + 1)
        /\ hist' = [hist EXCEPT ![nextSession] = @ \o <<"Allocated", "Registered">>]
        /\ acc' = [acc EXCEPT !.pc = "accept"]
        /\ UNCHANGED <<path, maxclient, clinetnum, rwmutex, fatal, hnd, kck, wrt,
                       events, calls>>
     \/ /\ MapBusy
        /\ fatal' = "concurrent map writes"
        /\ UNCHANGED <<path, maxclient, session, clinetnum, sessions, rwmutex, objVars,
                       taskVars, ioVars, hist>>

(* ------------------ open: the WebSocket upgrade handler ---------------- *)

\* A handler that goes on to register whatever the handshake returned.
UpgradedAlways(ok) == "add"

\* ws, err := newWebsocket(...); if err != nil { return }
Upgraded(ok) == IF ok THEN "add" ELSE "failed"

\* A request arrives: if maxclient != 0 && g.clinetnum >= maxclient { return };
\* session := g.nextSession(); ws, err := newWebsocket(...); if err != nil { return }
HandlerAdmit(h, cap) ==
  /\ Alive /\ ~IsTcp
  /\ hnd[h].pc = "idle"
  /\ \A j \in 1..(h - 1) : hnd[j].pc # "idle"
  /\ IF maxclient # 0 /\ Uge32(clinetnum, maxclient)
       THEN /\ hnd' = [hnd EXCEPT ![h].pc = "refused"]
            /\ UNCHANGED <<session, hist, objVars, srv, ioVars>>
       ELSE /\ session < cap
            /\ session' = nextSession
            /\ hist' = Record(nextSession, "Allocated")
            /\ \/ /\ hnd' = [hnd EXCEPT ![h].pc = Upgraded(FALSE),
                                        ![h].session = nextSession]
                  /\ UNCHANGED <<objVars, srv, ioVars>>
               \/ /\ NewBackend(nextSession, "ws", 0, 0)
                  /\ hnd' = [hnd EXCEPT ![h].pc = Upgraded(TRUE),
                                        ![h].session = nextSession,
                                        ![h].b = Len(backends) + 1]
                  /\ UNCHANGED <<rd, wr, wbuf, werr, bufioReaderPool, bufioWriterPool,
                                 events, calls>>
  /\ UNCHANGED <<path, maxclient, clinetnum, sessions, rwmutex, fatal, acc, kck, wrt>>

\* g.addBackend(session, ws):
\* g.rwmutex.Lock(); g.sessions[session] = b; g.rwmutex.Unlock()
addBackend(h) ==
  /\ Alive
  /\ hnd[h].pc = "add"
  /\ rwmutex.w = <<>> /\ rwmutex.r = {}
  /\ sessions' = MapPut(sessions, hnd[h].session, hnd[h].b)
  /\ hist' = Record(hnd[h].session, "Registered")
  /\ hnd' = [hnd EXCEPT ![h].pc = "inc"]
  /\ UNCHANGED <<path, maxclient, session, clinetnum, rwmutex, fatal, objVars,
                 acc, srv, kck, wrt, ioVars>>

\* the load of g.clinetnum++
HandlerIncRead(h) ==
  /\ Alive
  /\ hnd[h].pc = "inc"
  /\ hnd' = [hnd EXCEPT ![h].pc = "incw", ![h].cnt = clinetnum]
  /\ UNCHANGED <<gateVars, objVars, acc, srv, kck, wrt, ioVars, hist>>

\* the store of g.clinetnum++
HandlerIncWrite(h) ==
  /\ Alive
  /\ hnd[h].pc = "incw"
  /\ clinetnum' = Inc32(hnd[h].cnt)
  /\ hnd' = [hnd EXCEPT ![h].pc = "start", ![h].cnt = 0]
  /\ UNCHANGED <<path, maxclient, session, sessions, rwmutex, fatal, objVars,
                 acc, srv, kck, wrt, ioVars, hist>>

\* ws.Start(); the handler is then free for the next request.
HandlerStart(h) ==
  /\ Alive
  /\ hnd[h].pc = "start"
  /\ hist' = Record(hnd[h].session, "Active")
  /\ srv' = [srv EXCEPT ![hnd[h].b].pc = "ws"]
  /\ hnd' = [hnd EXCEPT ![h] = IdleHandler]
  /\ UNCHANGED <<gateVars, objVars, acc, kck, wrt, ioVars>>

\* The handler returns without a session: refused by the cap, or a failed handshake.
HandlerReturn(h) ==
  /\ Alive
  /\ hnd[h].pc \in {"refused", "failed"}
  /\ hnd' = [hnd EXCEPT ![h] = IdleHandler]
  /\ UNCHANGED <<gateVars, objVars, acc, srv, kck, wrt, ioVars, hist>>

(* ------------------------------ framing ------------------------------ *)

\* uint16(len(data)): the conversion keeps the low 16 bits.
Uint16Of(n) == n % U16Mod

\* The two bytes in little-endian order.
PutUint16LE(v) == <<v % ByteMod, (v \div ByteMod) % ByteMod>>

\* binary.BigEndian.PutUint16(head, v): head[0] = byte(v >> 8); head[1] = byte(v)
PutUint16(v) == <<(v \div ByteMod) % ByteMod, v % ByteMod>>

\* binary.BigEndian.Uint16(head): uint16(head[1]) | uint16(head[0])<<8
Uint16(head) == At(head, 1) * ByteMod + At(head, 2)

\* The wire format: a 2-byte big-endian length, then the payload.
Frame(p) == Cat(Bytes(PutUint16(Uint16Of(BLen(p)))), p)

\* make([]byte, length, length): a zeroed buffer.
Zeros(n) == Rep(n, 0)

Min(a, b) == IF a < b THEN a ELSE b

\* Bytes held by a sequence of chunks.
RECURSIVE Size(_)
Size(chs) == IF chs = <<>> THEN 0 ELSE BLen(Head(chs).bytes) + Size(Tail(chs))

\* The bytes of a sequence of chunks, in order.
RECURSIVE Flat(_)
Flat(chs) == IF chs = <<>> THEN <<>> ELSE Cat(Head(chs).bytes, Flat(Tail(chs)))

(* --------------------------- TcpBackend.serve ------------------------- *)

\* The goroutine of go backend.serve(g) starts running: head := make([]byte, 2).
ServeStart(b) ==
  /\ Alive
  /\ b \in 1..Len(srv)
  /\ srv[b].pc = "spawned"
  /\ backends[b].kind = "tcp"
  /\ srv' = [srv EXCEPT ![b].pc = "head"]
  /\ hist' = Record(backends[b].session, "Active")
  /\ UNCHANGED <<gateVars, objVars, acc, hnd, kck, wrt, ioVars>>

\* The stream the backend's bufio.Reader is bound to now (0: nil after Reset(nil)).
Stream(b) == rd[backends[b].Reader]

\* Bytes the running readFull still wants.
Need(b) == (IF srv[b].pc = "head" THEN 2 ELSE BLen(srv[b].data)) - srv[b].n

\* readFull(head) returned nil: length := binary.BigEndian.Uint16(head);
\* data := make([]byte, length, length); readFull of an empty buffer returns at once.
HeadDone(sv) ==
  LET length == Uint16(sv.head) IN
  [sv EXCEPT !.pc = IF length = 0 THEN "notify" ELSE "body", !.n = 0,
             !.data = Zeros(length)]

\* readFull(data) returned nil.
BodyDone(sv) == [sv EXCEPT !.pc = "notify", !.n = 0]

\* readFull returned nil, whatever the buffer holds.
ReadDone(sv) == IF sv.pc = "head" THEN HeadDone(sv) ELSE BodyDone(sv)

\* io.ReadFull calls t.brw.Read: the bufio.Reader calls Read on the stream it is
\* bound to at that moment, and the call is then pending on that stream. A reader
\* that Close has Reset(nil) has no stream: b.rd.Read panics on the nil io.Reader,
\* in a goroutine nobody recovers.
ReadBegin(b) ==
  /\ Alive
  /\ b \in 1..Len(srv)
  /\ srv[b].pc \in {"head", "body"}
  /\ srv[b].on = 0
  /\ IF Stream(b) = 0
       THEN fatal' = "nil dereference" /\ srv' = srv
       ELSE fatal' = fatal /\ srv' = [srv EXCEPT ![b].on = Stream(b)]
  /\ UNCHANGED <<path, maxclient, session, clinetnum, sessions, rwmutex, objVars,
                 acc, hnd, kck, wrt, ioVars, hist>>

\* copy(buf, got): the bytes read land at the start of buf.
FillAtStart(buf, n, got) == Cat(got, Drop(buf, BLen(got)))

\* copy(buf[n:], got): the bytes read land behind the n bytes already in buf.
Fill(buf, n, got) ==
  Cat(Cat(Take(buf, n), got), Drop(buf, n + BLen(got)))

\* The pending Read returns k bytes of its stream.
ServeRead(b, k) ==
  /\ Alive
  /\ b \in 1..Len(srv)
  /\ srv[b].pc \in {"head", "body"}
  /\ srv[b].on # 0
  /\ LET c == srv[b].on
         got == Take(inb[c], k)
         sv == [srv[b] EXCEPT !.on = 0]
         filled == IF sv.pc = "head"
                     THEN [sv EXCEPT !.head = Fill(sv.head, sv.n, got), !.n = @ + k]
                     ELSE [sv EXCEPT !.data = Fill(sv.data, sv.n, got), !.n = @ + k]
     IN /\ rerr[c] # "closed"
        /\ k >= 1 /\ k <= Min(Need(b), BLen(inb[c]))
        /\ inb' = [inb EXCEPT ![c] = Drop(@, k)]
        /\ srv' = [srv EXCEPT ![b] = IF k = Need(b) THEN ReadDone(filled) ELSE filled]
  /\ UNCHANGED <<gateVars, objVars, acc, hnd, kck, wrt, rerr, out, sent, events, calls, hist>>

\* The pending Read fails with an error that is no net.Error (io.EOF; ReadFull turns
\* it into io.ErrUnexpectedEOF after a partial read) or with a temporary net.Error:
\* readFull returns nil.
readFullSoft(b) ==
  /\ Alive
  /\ b \in 1..Len(srv)
  /\ srv[b].pc \in {"head", "body"}
  /\ srv[b].on # 0
  /\ LET c == srv[b].on IN
       /\ inb[c] = <<>>
       /\ rerr[c] \in {"eof", "ended", "temp"}
       /\ rerr' = [rerr EXCEPT ![c] = IF @ = "temp" THEN "resumed" ELSE "ended"]
  /\ srv' = [srv EXCEPT ![b] = ReadDone([@ EXCEPT !.on = 0])]
  /\ UNCHANGED <<gateVars, objVars, acc, hnd, kck, wrt, inb, out, sent, events, calls, hist>>

\* The pending Read fails with a net.Error that is not temporary (the socket was
\* closed by Close, or the connection was reset): readFull returns it and
\* g.kick(t.session) is called.
readFullFatal(b) ==
  /\ Alive
  /\ b \in 1..Len(srv)
  /\ srv[b].pc \in {"head", "body"}
  /\ srv[b].on # 0
  /\ LET c == srv[b].on IN
       \/ rerr[c] = "closed"
       \/ inb[c] = <<>> /\ rerr[c] = "fatal"
  /\ srv' = [srv EXCEPT ![b].pc = "kick", ![b].on = 0]
  /\ kck' = [kck EXCEPT ![<<"serve", b>>] =
               [IdleKick EXCEPT !.pc = "lock", !.session = backends[b].session]]
  /\ UNCHANGED <<gateVars, objVars, acc, hnd, wrt, ioVars, hist>>

\* g.service.Notify(g.Source, cham.PTYPE_CLIENT, t.session, OnMessage, data)
ServeNotify(b) ==
  /\ Alive
  /\ b \in 1..Len(srv)
  /\ srv[b].pc = "notify"
  /\ Len(events) < MaxEvents
  /\ events' = Append(events, [session |-> backends[b].session, type |-> OnMessage,
                               data |-> srv[b].data])
  /\ srv' = [srv EXCEPT ![b].pc = "head", ![b].data = <<>>]
  /\ UNCHANGED <<gateVars, objVars, acc, hnd, kck, wrt, inb, rerr, out, sent, calls, hist>>

(* ------------------------------ the peer ------------------------------ *)

\* The client of connection c sends the frame of payload p.
ClientSend(c, p) ==
  /\ Alive
  /\ c \in 1..Len(inb)
  /\ backends[c].kind = "tcp"
  /\ rerr[c] = "none"
  /\ Len(sent[c]) < MaxSends
  /\ inb' = [inb EXCEPT ![c] = Cat(@, Frame(p))]
  /\ sent' = [sent EXCEPT ![c] = Append(@, p)]
  /\ UNCHANGED <<gateVars, objVars, taskVars, rerr, out, events, calls, hist>>

\* The client of connection c sends back what it has received.
ClientEcho(c) ==
  /\ Alive
  /\ c \in 1..Len(inb)
  /\ backends[c].kind = "tcp"
  /\ rerr[c] = "none"
  /\ out[c] # <<>>
  /\ inb' = [inb EXCEPT ![c] = Cat(@, Flat(out[c]))]
  /\ out' = [out EXCEPT ![c] = <<>>]
  /\ UNCHANGED <<gateVars, objVars, taskVars, rerr, sent, events, calls, hist>>

\* The connection meets a read-side condition: the peer disconnects ("eof", "ended"
\* once a Read has returned io.EOF), a temporary network error ("temp", "resumed"
\* once a Read has returned it), or a connection reset ("fatal"). A connection
\* meets at most one in a run.
ConnFail(c, kind) ==
  /\ Alive
  /\ c \in 1..Len(rerr)
  /\ backends[c].kind = "tcp"
  /\ rerr[c] = "none"
  /\ rerr' = [rerr EXCEPT ![c] = kind]
  /\ UNCHANGED <<gateVars, objVars, taskVars, inb, out, sent, events, calls, hist>>

(* ------------------------------ Gate.Write ---------------------------- *)

\* ResponseStart's dispatch: gate.Write(sessionid, data)
WriteCall(w, id, data) ==
  /\ Alive
  /\ wrt[w].pc = "idle"
  /\ \A j \in 1..(w - 1) : wrt[j].pc # "idle"
  /\ Len(calls) < MaxCalls
  /\ calls' = Append(calls, [session |-> id, data |-> data, b |-> 0,
                              berr |-> "none", ret |-> "none"])
  /\ wrt' = [wrt EXCEPT ![w] = [pc |-> "lookup", session |-> id, data |-> data,
                                b |-> 0, call |-> Len(calls) + 1]]
  /\ UNCHANGED <<gateVars, objVars, acc, hnd, srv, kck, inb, rerr, out, sent, events, hist>>

\* Gate.Write with its error dropped.
WriteResultNil(ok, e) == "nil"

\* err of Gate.Write: if ok { err = b.Write(data) }; return
WriteResult(ok, e) == IF ok THEN e ELSE "nil"

\* Gate.Write returns after b.Write(data) has returned e.
WriteReturn(w, e) ==
  /\ wrt' = [wrt EXCEPT ![w] = IdleWrite]
  /\ calls' = [calls EXCEPT ![wrt[w].call].berr = e,
                            ![wrt[w].call].ret = WriteResult(TRUE, e)]

\* g.rwmutex.RLock(); b, ok := g.sessions[session]; g.rwmutex.RUnlock();
\* when !ok Write returns its err, which is nil.
WriteLookup(w) ==
  /\ Alive
  /\ wrt[w].pc = "lookup"
  /\ rwmutex.w = <<>>
  /\ IF wrt[w].session \in DOMAIN sessions
       THEN LET b == sessions[wrt[w].session] IN
            /\ wrt' = [wrt EXCEPT ![w].pc = IF backends[b].kind = "tcp"
                                              THEN "head" ELSE "send",
                                  ![w].b = b]
            /\ calls' = [calls EXCEPT ![wrt[w].call].b = b]
       ELSE /\ wrt' = [wrt EXCEPT ![w] = IdleWrite]
            /\ calls' = [calls EXCEPT ![wrt[w].call].ret = WriteResult(FALSE, "nil")]
  /\ UNCHANGED <<gateVars, objVars, acc, hnd, srv, kck, inb, rerr, out, sent, events, hist>>

\* A Write on the socket of connection c fails: the connection was reset, or the
\* socket is closed.
SockFails(c) == rerr[c] \in {"fatal", "closed"}

\* (*bufio.Writer).Write(p) on pooled writer o, p carried as one chunk. With its
\* sticky error set the writer takes nothing. p is copied into the buffer when it
\* fits; otherwise the buffer is filled and flushed (or, empty, bypassed), and what
\* is left is written through when it is larger than the buffer. A failing socket
\* write sets the sticky error. The call returns the sticky error.
BufioWrite(o, ch) ==
  LET used == Size(wbuf[o])
      avail == BufSize - used
      n == BLen(ch.bytes)
      c == wr[o]
      rest == [ch EXCEPT !.bytes = Drop(ch.bytes, avail)]
      first == [ch EXCEPT !.bytes = Take(ch.bytes, avail)]
  IN IF werr[o] # "nil"
       THEN UNCHANGED <<wbuf, werr, out, fatal>>
     ELSE IF n <= avail
       THEN /\ wbuf' = [wbuf EXCEPT ![o] = IF n = 0 THEN @ ELSE Append(@, ch)]
            /\ UNCHANGED <<werr, out, fatal>>
     ELSE IF c = 0
       THEN /\ fatal' = "nil dereference"
            /\ UNCHANGED <<wbuf, werr, out>>
     ELSE IF SockFails(c)
       THEN /\ werr' = [werr EXCEPT ![o] = "err"]
            /\ wbuf' = [wbuf EXCEPT ![o] = IF used = 0 THEN @ ELSE Append(@, first)]
            /\ UNCHANGED <<out, fatal>>
     ELSE /\ UNCHANGED <<werr, fatal>>
          /\ IF used = 0
               THEN /\ out' = [out EXCEPT ![c] = Append(@, ch)]
                    /\ wbuf' = wbuf
               ELSE IF BLen(rest.bytes) > BufSize
                 THEN /\ out' = [out EXCEPT ![c] = (@ \o wbuf[o]) \o <<first, rest>>]
                      /\ wbuf' = [wbuf EXCEPT ![o] = <<>>]
                 ELSE /\ out' = [out EXCEPT ![c] = Append(@ \o wbuf[o], first)]
                      /\ wbuf' = [wbuf EXCEPT ![o] = <<rest>>]

\* (*bufio.Writer).Flush() on pooled writer o; it returns the sticky error.
BufioFlush(o) ==
  IF werr[o] # "nil" \/ wbuf[o] = <<>>
    THEN UNCHANGED <<wbuf, werr, out, fatal>>
  ELSE IF wr[o] = 0
    THEN fatal' = "nil dereference" /\ UNCHANGED <<wbuf, werr, out>>
  ELSE IF SockFails(wr[o])
    THEN werr' = [werr EXCEPT ![o] = "err"] /\ UNCHANGED <<wbuf, out, fatal>>
  ELSE /\ out' = [out EXCEPT ![wr[o]] = @ \o wbuf[o]]
       /\ wbuf' = [wbuf EXCEPT ![o] = <<>>]
       /\ UNCHANGED <<werr, fatal>>

\* Where TcpBackend.Write goes after a step on writer o that left the process
\* running: on to its next step when err == nil, else it returns err.
TcpWriteNext(w, o, pc) ==
  IF fatal' # "none" THEN UNCHANGED <<wrt, calls>>
  ELSE IF werr'[o] = "nil" /\ pc # "return"
    THEN wrt' = [wrt EXCEPT ![w].pc = pc] /\ calls' = calls
  ELSE WriteReturn(w, werr'[o])

\* head := make([]byte, 2); binary.BigEndian.PutUint16(head, uint16(len(data)));
\* _, err = t.brw.Write(head)
TcpWriteHead(w) ==
  /\ Alive
  /\ wrt[w].pc = "head"
  /\ BufioWrite(backends[wrt[w].b].Writer,
                [call |-> wrt[w].call, part |-> "head",
                 bytes |-> Bytes(PutUint16(Uint16Of(BLen(wrt[w].data))))])
  /\ TcpWriteNext(w, backends[wrt[w].b].Writer, "data")
  /\ UNCHANGED <<path, maxclient, session, clinetnum, sessions, rwmutex, backends,
                 closes, rd, wr, bufioReaderPool, bufioWriterPool, acc, hnd, srv, kck,
                 inb, rerr, sent, events, hist>>

\* if err == nil { _, err = t.brw.Write(data) }
TcpWriteData(w) ==
  /\ Alive
  /\ wrt[w].pc = "data"
  /\ BufioWrite(backends[wrt[w].b].Writer,
                [call |-> wrt[w].call, part |-> "data", bytes |-> wrt[w].data])
  /\ TcpWriteNext(w, backends[wrt[w].b].Writer, "flush")
  /\ UNCHANGED <<path, maxclient, session, clinetnum, sessions, rwmutex, backends,
                 closes, rd, wr, bufioReaderPool, bufioWriterPool, acc, hnd, srv, kck,
                 inb, rerr, sent, events, hist>>

\* if err == nil { err = t.brw.Flush() }, and Write returns err
TcpWriteFlush(w) ==
  /\ Alive
  /\ wrt[w].pc = "flush"
  /\ BufioFlush(backends[wrt[w].b].Writer)
  /\ TcpWriteNext(w, backends[wrt[w].b].Writer, "return")
  /\ UNCHANGED <<path, maxclient, session, clinetnum, sessions, rwmutex, backends,
                 closes, rd, wr, bufioReaderPool, bufioWriterPool, acc, hnd, srv, kck,
                 inb, rerr, sent, events, hist>>

\* WebsocketBackend.Write: return w.SendText(data), which sends the message or
\* fails.
WebsocketWrite(w, e) ==
  /\ Alive
  /\ wrt[w].pc = "send"
  /\ e \in {"nil", "err"}
  /\ out' = IF e = "nil"
              THEN [out EXCEPT ![wrt[w].b] =
                      Append(@, [call |-> wrt[w].call, part |-> "text",
                                 bytes |-> wrt[w].data])]
              ELSE out
  /\ WriteReturn(w, e)
  /\ UNCHANGED <<gateVars, objVars, acc, hnd, srv, kck, inb, rerr, sent, events, hist>>

(* --------------------------- specifications --------------------------- *)

\* Payloads of the runs that enumerate interleavings: every byte string over two
\* byte values up to MaxLen bytes.
Payloads == {Bytes(q) : q \in UNION {[1..n -> {1, 2}] : n \in 0..MaxLen}}

\* The most bytes a client has in flight.
MaxBytes == MaxSends * (2 + MaxLen)

\* Payloads of the framing runs: their lengths straddle one byte, the buffer of a
\* bufio.Writer and the 16 bits of the header; the first half of a payload is of
\* one byte value and the rest of another.
FrameLens == {0, 1, 2, ByteMod - 1, ByteMod, BufSize - 2, BufSize, U16Mod - 1, U16Mod}
Pattern(n) == Cat(Rep(n \div 2, 1), Rep(n - (n \div 2), 2))
FramePayloads == {Pattern(n) : n \in FrameLens} \cup Payloads

\* Sizes of a Read in the framing runs: all that is wanted and there, or half of it.
ChunkSizes(b) ==
  IF b \in 1..Len(srv) /\ srv[b].on # 0
    THEN LET m == Min(Need(b), BLen(inb[srv[b].on])) IN {m, (m + 1) \div 2} \ {0}
    ELSE {}

\* The registry under admissions, kicks and failing connections, in both modes.
Next ==
  \/ AcceptCheck(MaxSession)
  \/ AcceptIncRead
  \/ AcceptIncWrite
  \/ \E r \in ReaderChoices, w \in WriterChoices : AcceptRegister(r, w)
  \/ \E h \in {1, 2} : HandlerAdmit(h, MaxSession)
  \/ \E h \in Handlers : addBackend(h)
  \/ \E h \in Handlers : HandlerIncRead(h)
  \/ \E h \in Handlers : HandlerIncWrite(h)
  \/ \E h \in Handlers : HandlerStart(h)
  \/ \E h \in Handlers : HandlerReturn(h)
  \/ \E b \in Ids : ServeStart(b)
  \/ \E b \in Ids : ConnFail(b, "fatal")
  \/ \E b \in Ids : ReadBegin(b)
  \/ \E b \in Ids : readFullFatal(b)
  \/ \E id \in Ids : KickCmd(1, id)
  \/ \E t \in KickTasks : KickLookup(t)
  \/ \E t \in KickTasks : KickDec(t)
  \/ \E t \in KickTasks : KickClose(t)

Spec == Init /\ [][Next]_vars

\* WebSocket admission against the cap: one more session than the registry
\* specification, three concurrent handlers, one KICK command at a time.
InitWs == Init /\ path # ""

NextAdmit ==
  \/ \E h \in Handlers : HandlerAdmit(h, MaxSession + 1)
  \/ \E h \in Handlers : addBackend(h)
  \/ \E h \in Handlers : HandlerIncRead(h)
  \/ \E h \in Handlers : HandlerIncWrite(h)
  \/ \E h \in Handlers : HandlerStart(h)
  \/ \E h \in Handlers : HandlerReturn(h)
  \/ \E id \in 1..(MaxSession + 1) : KickCmd(1, id)
  \/ \E t \in KickTasks : KickLookup(t)
  \/ \E t \in KickTasks : KickDec(t)
  \/ \E t \in KickTasks : KickClose(t)

SpecAdmit == InitWs /\ [][NextAdmit]_vars

\* TCP admission against the cap: two more sessions than the registry
\* specification, one KICK command at a time, every connection on new bufio objects.
InitCap == Init /\ path = ""

NextAccept ==
  \/ AcceptCheck(MaxSession + 2)
  \/ AcceptIncRead
  \/ AcceptIncWrite
  \/ \E r \in {Len(rd) + 1}, w \in {Len(wr) + 1} : AcceptRegister(r, w)
  \/ \E id \in Ids : KickCmd(1, id)
  \/ \E t \in KickTasks : KickLookup(t)
  \/ \E t \in KickTasks : KickDec(t)
  \/ \E t \in KickTasks : KickClose(t)

SpecAccept == InitCap /\ [][NextAccept]_vars

InitTcp == Init /\ path = "" /\ maxclient = 0

\* The write path of a TCP gate: two callers of Gate.Write, a KICK command, and
\* connections that come and go. The read loops are not scheduled in these runs.
NextWrite ==
  \/ AcceptCheck(MaxSession)
  \/ AcceptIncRead
  \/ AcceptIncWrite
  \/ \E r \in ReaderChoices, w \in WriterChoices : AcceptRegister(r, w)
  \/ \E id \in 1..MaxSession : KickCmd(1, id)
  \/ \E t \in KickTasks : KickLookup(t)
  \/ \E t \in KickTasks : KickDec(t)
  \/ \E t \in KickTasks : KickClose(t)
  \/ \E w \in Writers, id \in 1..(MaxSession + 1), p \in Payloads : WriteCall(w, id, p)
  \/ \E w \in Writers : WriteLookup(w)
  \/ \E w \in Writers : TcpWriteHead(w)
  \/ \E w \in Writers : TcpWriteData(w)
  \/ \E w \in Writers : TcpWriteFlush(w)

SpecWrite == InitTcp /\ [][NextWrite]_vars

\* The read path of a TCP gate: clients that send frames, disconnect or fail.
NextRead ==
  \/ AcceptCheck(MaxConns)
  \/ AcceptIncRead
  \/ AcceptIncWrite
  \/ \E r \in ReaderChoices, w \in WriterChoices : AcceptRegister(r, w)
  \/ \E b \in Ids : ServeStart(b)
  \/ \E b \in Ids : ReadBegin(b)
  \/ \E b \in Ids, k \in 1..MaxBytes : ServeRead(b, k)
  \/ \E b \in Ids : readFullSoft(b)
  \/ \E b \in Ids : readFullFatal(b)
  \/ \E b \in Ids : ServeNotify(b)
  \/ \E c \in Ids, p \in Payloads : ClientSend(c, p)
  \/ \E c \in Ids, kind \in {"eof", "temp", "fatal"} : ConnFail(c, kind)
  \/ \E id \in 1..MaxConns : KickCmd(1, id)
  \/ \E t \in KickTasks : KickLookup(t)
  \/ \E t \in KickTasks : KickDec(t)
  \/ \E t \in KickTasks : KickClose(t)

SpecRead == InitTcp /\ [][NextRead]_vars

\* Framing end to end on one connection whose client echoes what it receives.
NextFrame ==
  \/ AcceptCheck(MaxConns)
  \/ AcceptIncRead
  \/ AcceptIncWrite
  \/ \E r \in ReaderChoices, w \in WriterChoices : AcceptRegister(r, w)
  \/ \E b \in Ids : ServeStart(b)
  \/ \E b \in Ids : ReadBegin(b)
  \/ \E b \in Ids : \E k \in ChunkSizes(b) : ServeRead(b, k)
  \/ \E b \in Ids : ServeNotify(b)
  \/ \E c \in Ids : ClientEcho(c)
  \/ \E p \in FramePayloads : WriteCall(1, 1, p)
  \/ WriteLookup(1)
  \/ TcpWriteHead(1)
  \/ TcpWriteData(1)
  \/ TcpWriteFlush(1)

SpecFrame == InitTcp /\ [][NextFrame]_vars

\* The replies of Gate.Write in both modes: one caller, sessions that are
\* admitted, kicked and whose connection is reset.
NextReply ==
  \/ AcceptCheck(MaxSession)
  \/ AcceptIncRead
  \/ AcceptIncWrite
  \/ \E r \in ReaderChoices, w \in WriterChoices : AcceptRegister(r, w)
  \/ HandlerAdmit(1, MaxSession)
  \/ addBackend(1)
  \/ HandlerIncRead(1)
  \/ HandlerIncWrite(1)
  \/ HandlerStart(1)
  \/ HandlerReturn(1)
  \/ \E b \in Ids : ConnFail(b, "fatal")
  \/ \E id \in 1..MaxSession : KickCmd(1, id)
  \/ \E t \in KickTasks : KickLookup(t)
  \/ \E t \in KickTasks : KickDec(t)
  \/ \E t \in KickTasks : KickClose(t)
  \/ \E id \in 1..(MaxSession + 1), p \in Payloads : WriteCall(1, id, p)
  \/ WriteLookup(1)
  \/ TcpWriteHead(1)
  \/ TcpWriteData(1)
  \/ TcpWriteFlush(1)
  \/ \E e \in {"nil", "err"} : WebsocketWrite(1, e)

SpecReply == Init /\ [][NextReply]_vars

\* The read loops of sessions that follow one another: a session is kicked by a
\* KICK command while its loop runs, and the next connection takes what Close put
\* into the pools. Every client sends frames of one byte, its own; the KICK
\* commands are for the first session.
NextReuse ==
  \/ AcceptCheck(MaxSession)
  \/ AcceptIncRead
  \/ AcceptIncWrite
  \/ \E r \in ReaderChoices, w \in WriterChoices : AcceptRegister(r, w)
  \/ \E b \in Ids : ServeStart(b)
  \/ \E b \in Ids : ReadBegin(b)
  \/ \E b \in Ids : \E k \in ChunkSizes(b) : ServeRead(b, k)
  \/ \E b \in Ids : readFullFatal(b)
  \/ \E b \in Ids : ServeNotify(b)
  \/ \E c \in Ids : ClientSend(c, Bytes(<<c>>))
  \/ KickCmd(1, 1)
  \/ \E t \in KickTasks : KickLookup(t)
  \/ \E t \in KickTasks : KickDec(t)
  \/ \E t \in KickTasks : KickClose(t)

SpecReuse == InitTcp /\ [][NextReuse]_vars

(* ------------------------------- claims ------------------------------- *)

\* The lifecycle of one session, as the transitions the code makes.
Lifecycle == <<"Allocated", "Registered", "Active", "Kicked">>

IsPrefix(h, full) == Len(h) <= Len(full) /\ h = SubSeq(full, 1, Len(h))

\* C1: under every interleaving of admissions and kicks, each session id's history
\* follows Allocated -> Registered -> Active -> Kicked: it is a prefix of that chain,
\* or the chain cut short by a kick that came before the session was active. Kicked
\* is terminal: nothing happens to an id after its kick.
C1_HistoryFollowsLifecycle ==
  \A id \in Ids :
    \/ IsPrefix(hist[id], Lifecycle)
    \/ hist[id] = <<"Allocated", "Registered", "Kicked">>

\* C2: no chunk of a Write addressed to one session is ever on the wire of the
\* connection of another session.
C2_WriteStaysOnItsConnection ==
  \A c \in 1..Len(out) : \A i \in 1..Len(out[c]) :
    calls[out[c][i].call].session = backends[c].session

\* C3: on the wire of a connection, the header of a Write with a payload is followed
\* at once by the payload of the same Write, never by bytes of another Write to the
\* same session.
C3_FramesNotInterleaved ==
  \A c \in 1..Len(out) : \A i \in 1..(Len(out[c]) - 1) :
    LET this == out[c][i]
        next == out[c][i + 1]
    IN (/\ this.part = "head"
        /\ calls[this.call].data # <<>>
        /\ calls[next.call].session = calls[this.call].session)
       => (next.call = this.call /\ next.part = "data")

Range(f) == {f[x] : x \in DOMAIN f}

\* A kick that found backend b has not yet returned.
Closing(b) == \E t \in KickTasks : kck[t].pc \in {"dec", "close"} /\ kck[t].b = b

\* C4: Close() of a backend is invoked at most once, whatever kicks target its
\* session, and it has been invoked exactly once when a kick that removed the
\* session from the registry has returned; a backend no kick has removed is open.
C4_ClosedExactlyOnce ==
  \A b \in 1..Len(backends) :
    /\ closes[b] <= 1
    /\ closes[b] = 1 <=> ("Kicked" \in Range(hist[backends[b].session]) /\ ~Closing(b))

\* A read loop's own kick has returned and its backend was closed once, by that
\* kick or by the KICK command that raced with it.
C4_Witness ==
  \E b \in 1..Len(backends) : srv[b].pc = "done" /\ closes[b] = 1

\* C5: a kick of an id that is not in the registry (never allocated, never
\* registered, or already kicked) returns in its one step under the lock and
\* changes neither the session map nor the live count, closes nothing and emits
\* no event.
C5_KickOfAbsentIdIsNoOp ==
  [][\A t \in KickTasks :
       (/\ kck[t].pc = "lock"
        /\ kck[t].session \notin DOMAIN sessions
        /\ kck'[t] # kck[t])
       => (/\ kck'[t].pc = "idle"
           /\ UNCHANGED <<sessions, clinetnum, closes, rerr, events>>)]_vars

\* The kick of a read loop came second: the KICK command had removed the session
\* and not yet closed it, and the loop's kick returned without closing anything.
C5_Witness ==
  \E b \in 1..Len(backends) :
    /\ srv[b].pc = "done"
    /\ closes[b] = 0
    /\ "Kicked" \in Range(hist[backends[b].session])

\* C6: a read loop whose Read has met the end of the stream (the peer disconnected)
\* has left its loop: it is in kick(session) or has returned.
C6_DisconnectEndsLoop ==
  \A b \in 1..Len(srv) : rerr[b] = "ended" => srv[b].pc \in {"kick", "done"}

\* C7: with maxclient = N > 0 the accept loop goes on to admit a connection only
\* when fewer than N sessions are in the registry, and once it has refused a
\* connection it has stopped for good.
C7_AcceptHonoursTheCap ==
  maxclient # 0 =>
    /\ acc.pc \in {"inc", "incw", "register"} => Cardinality(DOMAIN sessions) < maxclient
    /\ acc.refused > 0 => acc.pc = "stopped"

\* C8 as stated: with maxclient = N > 0 never more than N + 1 sessions are live.
C8_SoftCapBoundedByOne ==
  maxclient # 0 => Cardinality(DOMAIN sessions) <= maxclient + 1

\* g.clinetnum >= maxclient on the uint32 the counter is (a negative residue is a
\* value above 2^31), with a cap configured.
AtCap == maxclient # 0 /\ (clinetnum < 0 \/ clinetnum >= maxclient)

\* C8, amended: the cap is best effort. An upgrade request that finds the counter at
\* or above N > 0 is refused and creates nothing: no id, no backend, no registry
\* entry, no change of the counter. One that finds it below N, or N = 0, is
\* admitted and takes the next id.
C8_RefusedOnlyAtTheCap ==
  [][\A h \in Handlers :
       (hnd[h].pc = "idle" /\ hnd'[h].pc # "idle")
       => IF AtCap
            THEN /\ hnd'[h].pc = "refused"
                 /\ UNCHANGED <<session, sessions, backends, clinetnum>>
            ELSE /\ hnd'[h].pc \in {"add", "failed"}
                 /\ session' = session + 1]_vars

\* A request is refused while more than N + 1 sessions are live.
C8_Witness ==
  /\ maxclient # 0
  /\ Cardinality(DOMAIN sessions) > maxclient + 1
  /\ \E h \in Handlers : hnd[h].pc = "refused"

\* The Gate.Write calls that went on to call their backend's Write, in order.
Written == SelectSeq(calls, LAMBDA c : c.b # 0)

\* Nothing is in flight: the writer has returned, the wire and the bufio buffers are
\* empty, and every read loop waits for the first byte of a header.
Drained ==
  /\ \A w \in Writers : wrt[w].pc = "idle"
  /\ \A o \in 1..Len(wbuf) : wbuf[o] = <<>>
  /\ \A c \in 1..Len(out) : out[c] = <<>> /\ inb[c] = <<>>
  /\ \A b \in 1..Len(srv) : srv[b].pc = "head" /\ srv[b].n = 0

\* C9: when every payload written is at most 65535 bytes long and the peer sends
\* back what it receives, the read loop emits the payloads written, in order and
\* byte for byte, as ON_MESSAGE of the session: never anything else, and one per
\* Write once nothing is in flight.
C9_RoundTrip ==
  (\A i \in 1..Len(calls) : BLen(calls[i].data) < U16Mod)
  => /\ Len(events) <= Len(Written)
     /\ \A i \in 1..Len(events) :
          /\ events[i].data = Written[i].data
          /\ events[i].type = OnMessage
          /\ events[i].session = backends[Written[i].b].session
     /\ Drained => Len(events) = Len(Written)

\* A payload of 65535 bytes has made the round trip.
C9_Witness ==
  /\ Drained
  /\ \E i \in 1..Len(events) :
       BLen(events[i].data) = U16Mod - 1 /\ events[i].data = Written[i].data

\* C10: every header on the wire carries the length of the payload of its Write.
C10_HeaderIsPayloadLength ==
  \A c \in 1..Len(out) : \A i \in 1..Len(out[c]) :
    out[c][i].part = "head" => Uint16(out[c][i].bytes) = BLen(calls[out[c][i].call].data)

\* The payloads of the ON_MESSAGE events tagged with the session of connection c,
\* in the order of their emission.
Emitted(c) ==
  LET es == SelectSeq(events, LAMBDA e : e.session = backends[c].session)
  IN [i \in 1..Len(es) |-> es[i].data]

\* The bytes of a sequence of payloads, each in its frame.
RECURSIVE Frames(_)
Frames(ps) == IF ps = <<>> THEN <<>> ELSE Cat(Frame(Head(ps)), Frames(Tail(ps)))

\* The bytes the read loop of b has taken off its stream for the frame it is at.
InHand(b) ==
  CASE srv[b].pc = "head" -> Take(srv[b].head, srv[b].n)
    [] srv[b].pc = "body" -> Cat(srv[b].head, Take(srv[b].data, srv[b].n))
    [] srv[b].pc = "notify" -> Cat(srv[b].head, srv[b].data)
    [] OTHER -> <<>>

\* C11: on a TCP connection that has met no read error, while no backend has been
\* closed, the read loop emits the payloads of the frames received, in arrival
\* order and tagged with the connection's session, however the reads split the
\* stream: the events emitted, the frame in hand and the bytes not yet read are
\* together exactly the frames the client sent, and once all is read there is one
\* ON_MESSAGE per frame.
C11_OneMessagePerFrame ==
  \A c \in 1..Len(backends) :
    (/\ backends[c].kind = "tcp"
     /\ rerr[c] = "none"
     /\ \A b \in 1..Len(closes) : closes[b] = 0)
    => /\ Len(Emitted(c)) <= Len(sent[c])
       /\ Emitted(c) = SubSeq(sent[c], 1, Len(Emitted(c)))
       /\ Cat(Cat(Frames(Emitted(c)), InHand(c)), inb[c]) = Frames(sent[c])
       /\ (inb[c] = <<>> /\ srv[c].pc = "head" /\ srv[c].n = 0)
            => Emitted(c) = sent[c]

\* Two frames, one of them with a payload, have arrived and have been emitted, and
\* the loop is in the middle of no frame.
C11_Witness ==
  \E c \in 1..Len(backends) :
    /\ rerr[c] = "none"
    /\ Len(sent[c]) = 2
    /\ Emitted(c) = sent[c]
    /\ \E i \in 1..2 : sent[c][i] # <<>>

\* C12: a Write for an id that is not in the registry returns nil in its one step
\* of lookup, calls no backend's Write and changes neither the session map, the
\* live count nor any connection; a Write for an id that is in the registry
\* returns exactly what the Write of the backend found returned.
C12_WriteReply ==
  /\ [](\A i \in 1..Len(calls) :
          /\ calls[i].b = 0 => calls[i].berr = "none" /\ calls[i].ret \in {"none", "nil"}
          /\ calls[i].b # 0 => calls[i].ret = calls[i].berr)
  /\ [][\A w \in Writers :
         (/\ wrt[w].pc = "lookup"
          /\ wrt[w].session \notin DOMAIN sessions
          /\ wrt'[w] # wrt[w])
         => (/\ wrt'[w].pc = "idle"
             /\ calls'[wrt[w].call].ret = "nil"
             /\ calls'[wrt[w].call].b = 0
             /\ UNCHANGED <<sessions, clinetnum, objVars, inb, rerr, out,
                            events>>)]_vars

\* One Write found its session kicked and returned nil, another returned the
\* error of its backend's Write.
C12_Witness ==
  \E i, j \in 1..Len(calls) :
    /\ calls[i].b = 0
    /\ calls[i].ret = "nil"
    /\ "Kicked" \in Range(hist[calls[i].session])
    /\ calls[j].b # 0
    /\ calls[j].berr = "err"
    /\ calls[j].ret = "err"

\* The ids nextSession has returned so far.
Returned == {i \in Ids : hist[i] # <<>>}

\* C13: the first id nextSession returns is 1; the ids returned are pairwise
\* distinct (an id is allocated once, and no two upgrade handlers hold the same
\* id), and every call returns an id greater than all ids returned before it.
C13_IdsAreFresh ==
  /\ [](/\ Returned = 1..session
        /\ \A i \in Returned :
             Len(SelectSeq(hist[i], LAMBDA e : e = "Allocated")) = 1
        /\ \A h, j \in Handlers :
             (h # j /\ hnd[h].session # 0 /\ hnd[j].session # 0)
             => hnd[h].session # hnd[j].session)
  /\ [][hist' # hist /\ (\E i \in Ids : hist[i] = <<>> /\ hist'[i] # <<>>)
         => \E i \in Ids :
              /\ hist[i] = <<>>
              /\ hist'[i] = <<"Allocated">>
              /\ Returned' = Returned \cup {i}
              /\ \A j \in Returned : j < i
              /\ Returned = {} => i = 1]_vars

\* Three upgrade handlers hold an id each at the same time.
C13_Witness ==
  /\ session = 3
  /\ \A h \in Handlers : hnd[h].session # 0
  /\ {hnd[h].session : h \in Handlers} = {1, 2, 3}

\* The ids that were allocated to an upgrade whose handshake then failed: they
\* were returned by nextSession and no backend was made for them.
Discarded == {i \in Returned : \A b \in 1..Len(backends) : backends[b].session # i}

\* C14: an admission that does not succeed creates no state. The step in which a
\* connection or an upgrade is refused by the cap, or in which the handshake of
\* an upgrade fails, and the return of that handler, leave the session map, the
\* live count, the backends and the events as they are (a refusal allocates no
\* id either); the id of a failed handshake is never in the session map nor in
\* an event, and nothing but its allocation happens to it.
C14_FailedAdmissionLeavesNoState ==
  /\ [](\A i \in Discarded :
          /\ i \notin DOMAIN sessions
          /\ \A e \in 1..Len(events) : events[e].session # i
          /\ hist[i] = <<"Allocated">>)
  /\ [][/\ \A h \in Handlers :
            (hnd'[h] # hnd[h] /\ {hnd[h].pc, hnd'[h].pc} \cap {"refused", "failed"} # {})
            => /\ UNCHANGED <<sessions, clinetnum, backends, srv, events>>
               /\ hnd'[h].pc = "refused" => UNCHANGED <<session, hist>>
        /\ acc'.refused # acc.refused
            => UNCHANGED <<sessions, clinetnum, session, backends, srv, events,
                           hist>>]_vars

\* With one session admitted under a cap of one, the handshake of a second
\* upgrade has failed and a third upgrade has been refused.
C14_Witness ==
  \E h, j \in Handlers :
    /\ hnd[h].pc = "failed"
    /\ hnd[h].session \in Discarded
    /\ hnd[j].pc = "refused"
    /\ sessions # <<>>

\* C15: every access to the session map is made under the registry lock. The
\* map is changed only in a step whose task could take the write lock (no other
\* task holds the lock, for writing or for reading), and the runtime never finds
\* two accesses to the map overlapping.
C15_MapAccessUnderLock ==
  /\ [](fatal # "concurrent map writes")
  /\ [][sessions' # sessions => (rwmutex.w = <<>> /\ rwmutex.r = {})]_vars

\* C16: Close() is not run while the kicking task holds the registry lock. A
\* task holds the write lock only between its lookup and its decrement; a task
\* that is about to close has removed its session from the map and holds no
\* lock, and the step that closes is taken without the lock.
C16_CloseOutsideTheLock ==
  /\ [](\A t \in KickTasks :
          /\ rwmutex.w = t => kck[t].pc = "dec"
          /\ kck[t].pc = "close"
               => /\ rwmutex.w # t
                  /\ kck[t].ok => kck[t].session \notin DOMAIN sessions)
  /\ [][\A b \in 1..Len(closes) :
         closes'[b] # closes[b]
         => \E t \in KickTasks :
              /\ kck[t].pc = "close" /\ kck[t].b = b /\ kck'[t].pc # "close"
              /\ rwmutex.w # t /\ rwmutex'.w # t]_vars

\* While the close of one session is pending, the kick of another session has
\* taken the registry lock and removed its entry.
C16_Witness ==
  \E t, u \in KickTasks :
    /\ t # u
    /\ kck[t].pc = "close" /\ kck[t].ok /\ closes[kck[t].b] = 0
    /\ kck[u].pc = "dec" /\ kck[u].ok /\ rwmutex.w = u
    /\ kck[u].session # kck[t].session

\* C17: a temporary read error is a retry. On a connection whose reads met
\* nothing worse than temporary errors, and with no session closed, the session
\* is not kicked by its read loop, and the messages emitted are the payloads
\* sent, in order and whole: no length and no payload is taken from a buffer
\* that was only partly filled.
C17_TemporaryErrorIsRetried ==
  \A c \in 1..Len(backends) :
    (/\ backends[c].kind = "tcp"
     /\ rerr[c] \in {"none", "temp", "resumed"}
     /\ \A b \in 1..Len(closes) : closes[b] = 0)
    => /\ srv[c].pc \notin {"kick", "done"}
       /\ Len(Emitted(c)) <= Len(sent[c])
       /\ Emitted(c) = SubSeq(sent[c], 1, Len(Emitted(c)))
       /\ Cat(Cat(Frames(Emitted(c)), InHand(c)), inb[c]) = Frames(sent[c])

\* C18: the read loop of a session reads its own connection only, also after
\* Close has put its reader into the pool and another connection has taken it:
\* a Read of the loop is pending on no other connection, and the messages
\* emitted for a session are payloads sent on its connection, in order.
C18_LoopReadsItsOwnConnection ==
  \A b \in 1..Len(backends) :
    backends[b].kind = "tcp"
    => /\ srv[b].on \in {0, b}
       /\ Len(Emitted(b)) <= Len(sent[b])
       /\ Emitted(b) = SubSeq(sent[b], 1, Len(Emitted(b)))

\* No admission and no kick is in progress.
Quiet ==
  /\ acc.pc \in {"accept", "stopped"}
  /\ \A h \in Handlers : hnd[h].pc = "idle"
  /\ \A t \in KickTasks : kck[t].pc = "idle"

\* C19: the live count tracks the registry. It never wraps below zero (a wrapped
\* count is a residue below 0 here), and whenever no admission and no kick is in
\* progress it is the number of entries of the session map.
C19_CountTracksTheRegistry ==
  /\ clinetnum >= 0
  /\ Quiet => clinetnum = Cardinality(DOMAIN sessions)

\* C20: once kick has removed a session from the map, its read loop emits no
\* ON_MESSAGE for it: every step that emits an event emits it for a session that
\* has not been kicked.
C20_NoMessageAfterKick ==
  [][Len(events') > Len(events)
     => "Kicked" \notin Range(hist[events'[Len(events')].session])]_vars

====
